---- MODULE Spec2Model ----
(***************************************************************************)
(* A model of HGCalAnalysis/python/NtupleDataFormat.py: the adaptor that   *)
(* presents a ROOT TTree as events (Event), collections (_Collection) and  *)
(* objects (_Object).                                                      *)
(*                                                                         *)
(* The TTree is the external collaborator.  It is modelled by the number   *)
(* of entries of the file, the set of entries whose read fails, the data   *)
(* each entry holds (EntryData) and the single branch buffer that          *)
(* GetEntry overwrites in place.  Floating point values are scaled by ten  *)
(* (1.5 is 15).                                                            *)
(*                                                                         *)
(* Names of the specification against the code:                           *)
(*   Store.loadEntry / randomEntry  HGCalNtuple.getEvent                   *)
(*   Store.iterate                  HGCalNtuple.__iter__                   *)
(*   Store.entryCount               HGCalNtuple.nevents                    *)
(*   EventView.entryIndex           Event.entry                            *)
(*   EventView.collection           Event.recHits, layerClusters, ...      *)
(*   CollectionView.length / at     _Collection.size / __getitem__         *)
(*   RecordView.get(a)              _Object.__getattr__(a)()               *)
(*   IndexOutOfRange                IndexError                             *)
(*   MissingFieldError              AttributeError                         *)
(*   InvalidRecordError             Exception("<class> is not valid")      *)
(*   StaleViewError, ReadError      (nothing in the code raises them)      *)
(***************************************************************************)
EXTENDS Integers, Sequences, FiniteSets, TLC

VARIABLES
    entries,    \* HGCalNtuple._entries: the number of entries of the tree
    bad,        \* the entries of the file whose GetEntry returns nb <= 0
    buffer,     \* the tree's branch buffer: what getattr(tree, name) gives
    held,       \* the view the caller holds: an Event, a collection or an object
    it,         \* the generator of HGCalNtuple.__iter__: its position
    yielded,    \* the entries the generator has yielded since it was created
    ret,        \* the outcome of the last call
    again       \* history: the last call repeated the read before it

vars == <<entries, bad, buffer, held, it, yielded, ret, again>>

----------------------------------------------------------------------------
(* Bounds of the model.                                                    *)

MaxEntries == 2     \* trees hold 0 .. MaxEntries entries
MaxIndex == 2       \* __getitem__ is tried with indices -1 .. MaxIndex

(* The index that marks an absent object.                                  *)
InvalidIndex == -1

----------------------------------------------------------------------------
(* The tree: branches and the data of each entry.                          *)

Branch(prefix, attr) == prefix \o "_" \o attr

ScalarBranches == {"run", "lumi", "event"}
VectorBranches == {"rechit_pt", "rechit_energy", "trackster_Id"}

(* The tree has no branch of prefix simcluster.                            *)
Prefixes == {"rechit", "trackster", "simcluster"}
Attrs == {"energy", "Id"}

NHits(e) == (e + 1) % 3

(* Entry 0 is an inconsistent entry: rechit_pt holds one element and       *)
(* rechit_energy none.  Entry 1 holds rechit_energy = [1.5, 2.5].          *)
EntryData(e) ==
    [sc  |-> [run |-> 1, lumi |-> 1 + (e \div 2), event |-> e + 1],
     vec |-> [b \in VectorBranches |->
                CASE b = "rechit_pt"     -> [k \in 1..NHits(e) |-> 2 * k + e]
                  [] b = "rechit_energy" ->
                        [k \in 1..(IF e = 0 THEN 0 ELSE NHits(e)) |-> 10 * k + 5 * e]
                  [] b = "trackster_Id"  -> [k \in 1..(e % 2) |-> k - 1]]]

(* The buffer before any entry is read: ROOT allocates it zeroed.          *)
ZeroBuffer ==
    [sc  |-> [run |-> 0, lumi |-> 0, event |-> 0],
     vec |-> [b \in VectorBranches |-> <<>>]]

(* The buffer holds exactly the data of entry e.                           *)
Loaded(e) == buffer = EntryData(e)

(* TTree::LoadTree(index): the entry number, or a negative number when the *)
(* index is outside the tree.                                              *)
LoadTree(index) == IF index >= entries THEN -2 ELSE index

(* TTree::GetEntry(entry) returns nb > 0.                                  *)
GetEntryOk(entry) == entry \in 0..(entries - 1) /\ entry \notin bad

(* The buffers GetEntry(entry) can leave behind.  A read that fails leaves *)
(* the buffer as it was, or overwritten in part (the scalar branches are   *)
(* read first).                                                            *)
GetEntryBuffers(entry) ==
    IF GetEntryOk(entry)
    THEN {EntryData(entry)}
    ELSE {buffer, [sc |-> EntryData(entry).sc, vec |-> buffer.vec]}

----------------------------------------------------------------------------
(* Values.                                                                 *)

(* A view: its kind, the fields the code gives it (entry for an Event,     *)
(* sizeBranch and prefix for a collection, prefix and index for an object, *)
(* val for the lambda an attribute lookup returns, index, val and pc for   *)
(* the generator of a collection) and its history (entry and moved for     *)
(* what was made from an Event, attr for a lambda, aged for a generator).  *)
NoView == [kind |-> "none", entry |-> -1, sizeBranch |-> "", prefix |-> "",
           index |-> 0, moved |-> FALSE,
           attr |-> "", val |-> 0, pc |-> "", aged |-> FALSE]


Result(op, arg, name, status, val) ==
    [op |-> op, arg |-> arg, name |-> name, status |-> status, val |-> val]

(* History of two successive calls r, r2: "same" when r2 is the attribute  *)
(* read or the size() that r was, through the same view, with the same     *)
(* outcome; "differ" when the outcome changed; "no" for any other call.    *)
Repeated(r, r2) ==
    IF r2.op \in {"getattr", "size"} /\ r.op = r2.op /\ r.name = r2.name
    THEN IF r2 = r THEN "same" ELSE "differ"
    ELSE "no"

(* A successful read of entry e: a view bound to another entry has been    *)
(* left behind.  entry and moved of a collection or an object are history  *)
(* the code does not keep: the entry of the Event they were made from.  A  *)
(* generator that has started has seen an entry read since.                *)
AfterLoad(v, e) ==
    IF v.kind = "none" THEN v
    ELSE [v EXCEPT !.moved = v.moved \/ v.entry # e,
                   !.aged = v.aged \/ (v.kind = "gen" /\ v.pc # "start")]

----------------------------------------------------------------------------
(* HGCalNtuple.getEvent                                                    *)

(* Mutant: the Event is bound to the entry after the one loaded.            *)
getEvent_return_next(index, ientry) ==
    IF ientry < 0
    THEN Result("getEvent", index, "", "None", 0)
    ELSE Result("getEvent", index, "", "Event", ientry + 1)

(* Mutant: no test of ientry; an index outside the tree gives an Event of  *)
(* the first entry.                                                        *)
getEvent_return_clamped(index, ientry) ==
    IF ientry < 0
    THEN Result("getEvent", index, "", "Event", 0)
    ELSE Result("getEvent", index, "", "Event", ientry)

(* Event(self._tree, ientry), or None when LoadTree gave ientry < 0.  The  *)
(* statement under "if nb <= 0" is the expression None: it does nothing.   *)
getEvent_return(index, ientry) ==
    IF ientry < 0
    THEN Result("getEvent", index, "", "None", 0)
    ELSE Result("getEvent", index, "", "Event", ientry)

NewEvent(entry) ==
    [kind |-> "event", entry |-> entry, sizeBranch |-> "", prefix |-> "",
     index |-> 0, moved |-> FALSE,
     attr |-> "", val |-> 0, pc |-> "", aged |-> FALSE]

(* Mutant: an index outside the tree rewinds the tree to its first entry.  *)
getEvent_rewind(index, keep) ==
    /\ it.pc # "running"
    /\ LET ientry == LoadTree(index) IN
       /\ IF ientry < 0
          THEN /\ buffer' = IF GetEntryOk(0) THEN EntryData(0) ELSE buffer
               /\ UNCHANGED held
          ELSE /\ buffer' \in GetEntryBuffers(ientry)
               /\ held' = IF keep THEN NewEvent(ientry)
                          ELSE IF GetEntryOk(ientry) THEN AfterLoad(held, ientry)
                          ELSE held
       /\ ret' = getEvent_return(index, ientry)
    /\ again' = Repeated(ret, ret')
    /\ UNCHANGED <<entries, bad, it, yielded>>

getEvent(index, keep) ==
    /\ it.pc # "running"
    /\ LET ientry == LoadTree(index) IN
       /\ IF ientry < 0
          THEN /\ UNCHANGED buffer
               /\ UNCHANGED held
          ELSE /\ buffer' \in GetEntryBuffers(ientry)
               /\ held' = IF keep THEN NewEvent(ientry)
                          ELSE IF GetEntryOk(ientry) THEN AfterLoad(held, ientry)
                          ELSE held
       /\ ret' = getEvent_return(index, ientry)
    /\ again' = Repeated(ret, ret')
    /\ UNCHANGED <<entries, bad, it, yielded>>

(* Mutant: the number of the entry the iteration has reached.              *)
nevents_position == Result("nevents", 0, "", "ok", it.jentry)

(* nevents() returns self._entries.                                        *)
nevents_result == Result("nevents", 0, "", "ok", entries)

(* hasRawRecHits(): hasattr(self._tree, "rechit_raw_pt"); True is 1.       *)
hasRawRecHits_result ==
    Result("hasRawRecHits", 0, "rechit_raw_pt", "ok",
           IF "rechit_raw_pt" \in ScalarBranches \cup VectorBranches
           THEN 1 ELSE 0)

HGCalNtuple_read(which) ==
    /\ it.pc # "running"
    /\ ret' = IF which = "nevents" THEN nevents_result ELSE hasRawRecHits_result
    /\ again' = Repeated(ret, ret')
    /\ UNCHANGED <<entries, bad, buffer, held, it, yielded>>

----------------------------------------------------------------------------
(* HGCalNtuple.__iter__: a generator.  Calling it creates the generator    *)
(* and runs nothing; each next() resumes the loop until it yields or ends. *)
(* One step of iter_next is one pass of the loop body; while the loop is   *)
(* between two passes (pc = "running") the caller is inside next().        *)

(* Mutant: a new generator goes on where the last one stopped.             *)
iter_call_resume ==
    /\ it.pc # "running"
    /\ it' = [pc |-> "start", jentry |-> it.jentry]
    /\ yielded' = <<>>
    /\ ret' = Result("iter", 0, "", "ok", 0)
    /\ again' = Repeated(ret, ret')
    /\ UNCHANGED <<entries, bad, buffer, held>>

iter_call ==
    /\ it.pc # "running"
    /\ it' = [pc |-> "start", jentry |-> 0]
    /\ yielded' = <<>>
    /\ ret' = Result("iter", 0, "", "ok", 0)
    /\ again' = Repeated(ret, ret')
    /\ UNCHANGED <<entries, bad, buffer, held>>

(* LoadTree(jentry) < 0: break.                                            *)
iter_noTree(jentry) == [pc |-> "done", jentry |-> jentry]

(* Mutant: break instead of continue.                                      *)
iter_shortRead_break(jentry) == [pc |-> "done", jentry |-> jentry]

(* GetEntry(jentry) gave nb <= 0: continue with the next entry.            *)
iter_shortRead(jentry) == [pc |-> "running", jentry |-> jentry + 1]

(* yield Event(self._tree, jentry)                                         *)
iter_yield(jentry) == [pc |-> "yielded", jentry |-> jentry + 1]

iter_next(keep) ==
    /\ it.pc \in {"start", "yielded", "running"}
    /\ LET jentry == it.jentry IN
       IF jentry >= entries
       THEN \* range(self._entries) is exhausted
            /\ it' = [pc |-> "done", jentry |-> jentry]
            /\ UNCHANGED <<buffer, held, yielded>>
       ELSE IF LoadTree(jentry) < 0
       THEN /\ it' = iter_noTree(jentry)
            /\ UNCHANGED <<buffer, held, yielded>>
       ELSE /\ buffer' \in GetEntryBuffers(jentry)
            /\ IF ~GetEntryOk(jentry)
               THEN /\ it' = iter_shortRead(jentry)
                    /\ UNCHANGED <<held, yielded>>
               ELSE /\ it' = iter_yield(jentry)
                    /\ yielded' = Append(yielded, jentry)
                    /\ held' = IF keep THEN NewEvent(jentry)
                               ELSE AfterLoad(held, jentry)
    /\ ret' = CASE it'.pc = "yielded" -> Result("next", 0, "", "Event", it.jentry)
                [] it'.pc = "done"    -> Result("next", 0, "", "StopIteration", 0)
                [] OTHER              -> Result("next", 0, "", "running", 0)
    /\ again' = Repeated(ret, ret')
    /\ UNCHANGED <<entries, bad>>

----------------------------------------------------------------------------
(* Event                                                                   *)

(* Mutant: a read through an Event whose entry is no longer loaded is      *)
(* rejected.                                                               *)
Event_read_checked(ev, which) ==
    IF which = "entry"
    THEN Result(which, 0, "", "ok", ev.entry)
    ELSE IF ev.moved
    THEN Result(which, 0, "", "StaleViewError", 0)
    ELSE Result(which, 0, "", "ok", buffer.sc[which])

(* entry() returns self._entry; run(), lumi() and event() return the       *)
(* branch of that name from the tree's buffer.                             *)
Event_read(ev, which) ==
    IF which = "entry"
    THEN Result(which, 0, "", "ok", ev.entry)
    ELSE Result(which, 0, "", "ok", buffer.sc[which])

EventOps == {"entry", "run", "lumi", "event"}

(* Mutant: a read through an Event first reads the Event's own entry back  *)
(* into the buffer.                                                        *)
Event_get_rebind(which) ==
    /\ it.pc # "running"
    /\ held.kind = "event"
    /\ buffer' = IF GetEntryOk(held.entry) THEN EntryData(held.entry) ELSE buffer
    /\ ret' = IF which = "entry" THEN Result(which, 0, "", "ok", held.entry)
              ELSE Result(which, 0, "", "ok", buffer'.sc[which])
    /\ again' = Repeated(ret, ret')
    /\ UNCHANGED <<entries, bad, held, it, yielded>>

Event_get(which) ==
    /\ it.pc # "running"
    /\ held.kind = "event"
    /\ ret' = Event_read(held, which)
    /\ again' = Repeated(ret, ret')
    /\ UNCHANGED <<entries, bad, buffer, held, it, yielded>>

(* eventIdStr(): "%d:%d:%d" % (run, lumi, event).                          *)
Event_eventIdStr_result(ev) ==
    Result("eventIdStr", 0,
           ToString(buffer.sc.run) \o ":" \o ToString(buffer.sc.lumi)
               \o ":" \o ToString(buffer.sc.event),
           "ok", 0)

Event_eventIdStr ==
    /\ it.pc # "running"
    /\ held.kind = "event"
    /\ ret' = Event_eventIdStr_result(held)
    /\ again' = Repeated(ret, ret')
    /\ UNCHANGED <<entries, bad, buffer, held, it, yielded>>

(* The collection classes and the attribute whose branch gives the size.   *)
CollectionClasses == {"RecHits", "LayerClusters", "SimClusters", "Tracksters"}

SizeAttr(class) == IF class = "Tracksters" THEN "Id" ELSE "pt"

(* recHits(prefix), layerClusters(prefix), simClusters(prefix) and         *)
(* tracksters(prefix): the constructor stores the tree, the size branch    *)
(* and the prefix, and reads nothing.                                      *)
Event_collection_new(ev, class, prefix) ==
    [kind |-> "coll", entry |-> ev.entry,
     sizeBranch |-> Branch(prefix, SizeAttr(class)), prefix |-> prefix,
     index |-> 0, moved |-> ev.moved,
     attr |-> "", val |-> 0, pc |-> "", aged |-> FALSE]

(* Mutant: the constructor looks the size branch up in the tree.           *)
Event_collection_eager(class, prefix) ==
    /\ it.pc # "running"
    /\ held.kind = "event"
    /\ IF Branch(prefix, SizeAttr(class)) \in VectorBranches
       THEN /\ held' = Event_collection_new(held, class, prefix)
            /\ ret' = Result("collection", 0, prefix, "ok", 0)
       ELSE /\ held' = held
            /\ ret' = Result("collection", 0, prefix, "AttributeError", 0)
    /\ again' = Repeated(ret, ret')
    /\ UNCHANGED <<entries, bad, buffer, it, yielded>>

Event_collection(class, prefix) ==
    /\ it.pc # "running"
    /\ held.kind = "event"
    /\ held' = Event_collection_new(held, class, prefix)
    /\ ret' = Result("collection", 0, prefix, "ok", 0)
    /\ again' = Repeated(ret, ret')
    /\ UNCHANGED <<entries, bad, buffer, it, yielded>>

----------------------------------------------------------------------------
(* _Collection                                                             *)

(* Mutant: the first value of the size branch is taken for the count.      *)
Collection_size_stored(c) ==
    IF c.sizeBranch \in VectorBranches
    THEN Result("size", 0, c.sizeBranch, "ok",
                IF buffer.vec[c.sizeBranch] = <<>> THEN 0
                ELSE buffer.vec[c.sizeBranch][1])
    ELSE Result("size", 0, c.sizeBranch, "AttributeError", 0)

(* int(getattr(self._tree, self._sizeBranch).size()): the number of        *)
(* elements of the vector in the size branch.  A tree without the branch   *)
(* raises AttributeError.                                                  *)
Collection_size_result(c) ==
    IF c.sizeBranch \in VectorBranches
    THEN Result("size", 0, c.sizeBranch, "ok", Len(buffer.vec[c.sizeBranch]))
    ELSE Result("size", 0, c.sizeBranch, "AttributeError", 0)

Collection_size ==
    /\ it.pc # "running"
    /\ held.kind = "coll"
    /\ ret' = Collection_size_result(held)
    /\ again' = Repeated(ret, ret')
    /\ UNCHANGED <<entries, bad, buffer, held, it, yielded>>

(* __getitem__(index): self._objclass(self._tree, index, self._prefix).    *)
Collection_getitem_new(c, index) ==
    [kind |-> "obj", entry |-> c.entry, sizeBranch |-> "",
     prefix |-> c.prefix, index |-> index, moved |-> c.moved,
     attr |-> "", val |-> 0, pc |-> "", aged |-> FALSE]

(* Mutant: __getitem__ checks the index against size().                    *)
Collection_getitem_checked(c, index) ==
    IF /\ c.sizeBranch \in VectorBranches
       /\ (index < 0 \/ index >= Len(buffer.vec[c.sizeBranch]))
    THEN Result("getitem", index, c.sizeBranch, "IndexError", 0)
    ELSE Result("getitem", index, c.sizeBranch, "ok", index)

Collection_getitem_result(c, index) ==
    Result("getitem", index, c.sizeBranch, "ok", index)

Collection_getitem(index) ==
    /\ it.pc # "running"
    /\ held.kind = "coll"
    /\ ret' = Collection_getitem_result(held, index)
    /\ held' = IF ret'.status = "ok" THEN Collection_getitem_new(held, index)
               ELSE held
    /\ again' = Repeated(ret, ret')
    /\ UNCHANGED <<entries, bad, buffer, it, yielded>>

(* __iter__: a generator.  Calling it runs nothing; the first next()      *)
(* evaluates range(self.size()) once, and each next() yields the object of *)
(* the next index or ends.  The caller holds the generator in place of the *)
(* collection; val is the size the range was made of and index the next    *)
(* index.                                                                  *)
Collection_iter_new(c) ==
    [c EXCEPT !.kind = "gen", !.pc = "start", !.index = 0, !.val = 0,
              !.aged = FALSE]

Collection_iter ==
    /\ it.pc # "running"
    /\ held.kind \in {"coll", "gen"}
    /\ held' = Collection_iter_new(held)
    /\ ret' = Result("citer", 0, held.sizeBranch, "ok", 0)
    /\ again' = Repeated(ret, ret')
    /\ UNCHANGED <<entries, bad, buffer, it, yielded>>

(* Mutant: the range is one longer than size().                            *)
Collection_iter_range_inclusive(g) ==
    IF g.pc = "start" THEN Collection_size_result(g).val + 1 ELSE g.val

(* The size of the range: size() at the first next(), kept afterwards.     *)
Collection_iter_range(g) ==
    IF g.pc = "start" THEN Collection_size_result(g).val ELSE g.val

Collection_iter_next ==
    /\ it.pc # "running"
    /\ held.kind = "gen"
    /\ held.pc \in {"start", "yielded"}
    /\ IF held.pc = "start" /\ Collection_size_result(held).status # "ok"
       THEN \* size() raises: the generator ends with the exception
            /\ held' = [held EXCEPT !.pc = "done"]
            /\ ret' = Result("cnext", 0, held.prefix, "AttributeError", 0)
       ELSE LET n == Collection_iter_range(held) IN
            IF held.index < n
            THEN \* yield self._objclass(self._tree, index, self._prefix)
                 /\ held' = [held EXCEPT !.pc = "yielded", !.val = n,
                                         !.index = held.index + 1]
                 /\ ret' = Result("cnext", 0, held.prefix, "Object", held.index)
            ELSE /\ held' = [held EXCEPT !.pc = "done", !.val = n]
                 /\ ret' = Result("cnext", 0, held.prefix, "StopIteration", 0)
    /\ again' = Repeated(ret, ret')
    /\ UNCHANGED <<entries, bad, buffer, it, yielded>>

----------------------------------------------------------------------------
(* _Object                                                                 *)

Object_isValid(o) == o.index # InvalidIndex

(* Mutant: an index past the end gives the last element, or 0 when there   *)
(* is none.                                                                *)
VectorAt_clamped(vec, index) ==
    LET n == Len(vec)
        k == IF index < 0 THEN index + n ELSE index
    IN  IF k < 0 \/ n = 0 THEN [status |-> "ok", val |-> 0]
        ELSE IF k >= n THEN [status |-> "ok", val |-> vec[n]]
        ELSE [status |-> "ok", val |-> vec[k + 1]]

(* vec[index] of a sequence, Python indexing: a negative index counts from *)
(* the end, an index outside the sequence raises IndexError.               *)
VectorAt(vec, index) ==
    LET n == Len(vec)
        k == IF index < 0 THEN index + n ELSE index
    IN  IF k < 0 \/ k >= n
        THEN [status |-> "IndexError", val |-> 0]
        ELSE [status |-> "ok", val |-> vec[k + 1]]

(* Mutant: the branch is looked up before the index is checked.            *)
Object_getattr_lookupFirst(o, attr) ==
    LET b == Branch(o.prefix, attr) IN
    IF b \notin VectorBranches
    THEN Result("getattr", o.index, attr, "AttributeError", 0)
    ELSE IF o.index = -1
    THEN Result("getattr", o.index, attr, "Exception", 0)
    ELSE LET r == VectorAt(buffer.vec[b], o.index)
         IN  Result("getattr", o.index, attr, r.status, r.val)

(* Mutant: an object made from an Event that another load has left behind *)
(* stays rejected.                                                         *)
Object_getattr_stale(o, attr) ==
    LET b == Branch(o.prefix, attr) IN
    IF o.moved
    THEN Result("getattr", o.index, attr, "StaleViewError", 0)
    ELSE IF o.index = -1
    THEN Result("getattr", o.index, attr, "Exception", 0)
    ELSE IF b \notin VectorBranches
    THEN Result("getattr", o.index, attr, "AttributeError", 0)
    ELSE LET r == VectorAt(buffer.vec[b], o.index)
         IN  Result("getattr", o.index, attr, r.status, r.val)

(* __getattr__(attr) and the call of the lambda it returns: first          *)
(* _checkIsValid, then getattr(tree, prefix_attr), then [index].           *)
Object_getattr_result(o, attr) ==
    LET b == Branch(o.prefix, attr) IN
    IF ~Object_isValid(o)
    THEN Result("getattr", o.index, attr, "Exception", 0)
    ELSE IF b \notin VectorBranches
    THEN Result("getattr", o.index, attr, "AttributeError", 0)
    ELSE LET r == VectorAt(buffer.vec[b], o.index)
         IN  Result("getattr", o.index, attr, r.status, r.val)

(* Mutant: the read takes the first element out of the vector it read.     *)
Object_getattr_consuming(attr) ==
    /\ it.pc # "running"
    /\ held.kind = "obj"
    /\ ret' = Object_getattr_result(held, attr)
    /\ buffer' = IF ret'.status = "ok"
                 THEN [buffer EXCEPT !.vec[Branch(held.prefix, attr)] = Tail(@)]
                 ELSE buffer
    /\ again' = Repeated(ret, ret')
    /\ UNCHANGED <<entries, bad, held, it, yielded>>

Object_getattr(attr) ==
    /\ it.pc # "running"
    /\ held.kind = "obj"
    /\ ret' = Object_getattr_result(held, attr)
    /\ again' = Repeated(ret, ret')
    /\ UNCHANGED <<entries, bad, buffer, held, it, yielded>>

(* isValid() and index(); True is 1 and False is 0.                        *)
Object_isValid_result(o) ==
    Result("isValid", o.index, "", "ok", IF Object_isValid(o) THEN 1 ELSE 0)

Object_index_result(o) == Result("index", o.index, "", "ok", o.index)

Object_read(which) ==
    /\ it.pc # "running"
    /\ held.kind = "obj"
    /\ ret' = IF which = "isValid" THEN Object_isValid_result(held)
              ELSE Object_index_result(held)
    /\ again' = Repeated(ret, ret')
    /\ UNCHANGED <<entries, bad, buffer, held, it, yielded>>

(* f = obj.attr without the call: __getattr__ runs, reads the value and   *)
(* returns "lambda: val".  The caller then holds the lambda; prefix, index *)
(* and attr are kept as its history.                                       *)
Object_lookup_new(o, attr, val) ==
    [o EXCEPT !.kind = "acc", !.attr = attr, !.val = val]

Object_lookup(attr) ==
    /\ it.pc # "running"
    /\ held.kind = "obj"
    /\ ret' = [Object_getattr_result(held, attr) EXCEPT !.op = "lookup"]
    /\ held' = IF ret'.status = "ok"
               THEN Object_lookup_new(held, attr, ret'.val)
               ELSE held
    /\ again' = Repeated(ret, ret')
    /\ UNCHANGED <<entries, bad, buffer, it, yielded>>

(* Mutant: the lambda reads the branch when it is called.                  *)
Lambda_call_late(f) ==
    LET r == VectorAt(buffer.vec[Branch(f.prefix, f.attr)], f.index)
    IN  Result("call", f.index, f.attr, r.status, r.val)

(* f(): the lambda returns the val it closed over.                         *)
Lambda_call_result(f) == Result("call", f.index, f.attr, "ok", f.val)

Lambda_call ==
    /\ it.pc # "running"
    /\ held.kind = "acc"
    /\ ret' = Lambda_call_result(held)
    /\ again' = Repeated(ret, ret')
    /\ UNCHANGED <<entries, bad, buffer, held, it, yielded>>

----------------------------------------------------------------------------
Init ==
    /\ entries \in 0..MaxEntries
    /\ bad \in SUBSET (0..(entries - 1))
    /\ buffer = ZeroBuffer
    /\ held = NoView
    /\ it = [pc |-> "none", jentry |-> 0]
    /\ yielded = <<>>
    /\ ret = Result("open", 0, "", "ok", 0)
    /\ again = "no"

Indices == {InvalidIndex} \cup 0..MaxIndex

Next ==
    \/ \E index \in -1..entries, keep \in BOOLEAN : getEvent(index, keep)
    \/ iter_call
    \/ \E keep \in BOOLEAN : iter_next(keep)
    \/ \E which \in EventOps : Event_get(which)
    \/ \E class \in CollectionClasses, prefix \in Prefixes :
            Event_collection(class, prefix)
    \/ Collection_size
    \/ \E index \in Indices : Collection_getitem(index)
    \/ \E attr \in Attrs : Object_getattr(attr)
    \/ \E which \in {"isValid", "index"} : Object_read(which)
    \/ \E attr \in Attrs : Object_lookup(attr)
    \/ \E which \in {"nevents", "hasRawRecHits"} : HGCalNtuple_read(which)
    \/ Event_eventIdStr
    \/ Collection_iter
    \/ Collection_iter_next
    \/ Lambda_call

Spec == Init /\ [][Next]_vars

----------------------------------------------------------------------------
(* The claims.  ret is the outcome of the last call and held the view it   *)
(* was made through; a load replaces ret, so a read recorded in ret saw    *)
(* held.moved as it is now.                                                *)

ReadOps == {"run", "lumi", "event", "size", "getitem", "getattr"}

InRange(i) == 0 <= i /\ i < entries

(* What a read of entry data d through view v gives, from the data alone.  *)
ExpectedRead(d, v, r) ==
    CASE r.op \in {"run", "lumi", "event"} ->
            r.status = "ok" /\ r.val = d.sc[r.op]
      [] r.op = "size" ->
            IF r.name \in VectorBranches
            THEN r.status = "ok" /\ r.val = Len(d.vec[r.name])
            ELSE r.status = "AttributeError"
      [] r.op = "getitem" ->
            r.status = "ok" /\ v.kind = "obj" /\ v.index = r.arg
      [] r.op = "getattr" ->
            LET b == Branch(v.prefix, r.name) IN
            IF v.index = -1 THEN r.status = "Exception"
            ELSE IF b \notin VectorBranches THEN r.status = "AttributeError"
            ELSE IF v.index >= Len(d.vec[b]) THEN r.status = "IndexError"
            ELSE r.status = "ok" /\ r.val = d.vec[b][v.index + 1]

(* C1 as stated: a read through a view bound to entry i, made after        *)
(* another entry j has been loaded, fails with StaleViewError.             *)
C1_StaleReadFails ==
    (held.moved /\ ret.op \in ReadOps) => ret.status = "StaleViewError"

(* C1 amended: no read is rejected for staleness.  A read through a view   *)
(* that was bound to entry i, made while entry j is loaded, is evaluated   *)
(* on the buffer: it gives what entry j holds, and entry() still gives i.  *)
C1_StaleReadUsesLoadedEntry ==
    /\ ret.status # "StaleViewError"
    /\ \A j \in 0..(entries - 1) :
          (held.moved /\ Loaded(j) /\ ret.op \in ReadOps)
              => ExpectedRead(EntryData(j), held, ret)
    /\ (held.moved /\ ret.op = "entry") => ret.val = held.entry

C1_Witness ==
    /\ held.kind = "event" /\ held.moved /\ held.entry = 0
    /\ Loaded(1)
    /\ ret.op = "event" /\ ret.status = "ok" /\ ret.val = 2

(* C2: getEvent(i) of a readable entry i in range returns an Event whose   *)
(* entry() is i, and entry i is then the loaded entry.                     *)
C2_GetEventBindsEntry ==
    (ret.op = "getEvent" /\ InRange(ret.arg) /\ ret.arg \notin bad)
        => /\ ret.status = "Event"
           /\ ret.val = ret.arg
           /\ Loaded(ret.arg)

C2_Witness ==
    /\ ret.op = "getEvent" /\ ret.arg = 1 /\ ret.status = "Event"
    /\ Loaded(1)
    /\ held.kind = "obj" /\ held.entry = 0 /\ held.moved

AllEntries(n) == [k \in 1..n |-> k - 1]

IsReadable(e) == e \notin bad

(* The readable entries below n, in increasing order.                      *)
ReadableBelow(n) == SelectSeq(AllEntries(n), IsReadable)

FirstBad == CHOOSE r \in bad : \A q \in bad : r <= q

(* C3 as stated: the iteration ends at the first entry r whose read fails: *)
(* it yields exactly 0 .. r-1.                                             *)
C3_StopsAtFirstFailure ==
    (it.pc = "done" /\ bad # {}) => yielded = AllEntries(FirstBad)

(* C3 amended: an entry whose read fails is skipped and the iteration goes *)
(* on with the next entry: it yields exactly the readable entries, in      *)
(* increasing order, and no error reaches the consumer.                    *)
C3_SkipsFailedEntries ==
    /\ it.pc = "done" => yielded = ReadableBelow(entries)
    /\ it.pc \in {"start", "yielded", "running"}
          => yielded = ReadableBelow(it.jentry)
    /\ ret.op = "next" => ret.status \in {"Event", "StopIteration", "running"}

C3_Witness ==
    /\ it.pc = "done" /\ bad # {}
    /\ \E k \in 1..Len(yielded) : yielded[k] > FirstBad

(* C4: on a tree whose entries are all readable an iteration yields        *)
(* 0, 1, ..., entries-1 in this order, each once, and ends; it starts at 0 *)
(* whatever was loaded or iterated before, and yields nothing on an empty  *)
(* tree.                                                                   *)
C4_IterateYieldsAllInOrder ==
    bad = {} =>
        /\ \A k \in 1..Len(yielded) : yielded[k] = k - 1
        /\ Len(yielded) <= entries
        /\ it.pc = "done" => yielded = AllEntries(entries)
        /\ it.pc = "start" => yielded = <<>>
        /\ (it.pc = "yielded" /\ ret.op = "next")
              => ret.status = "Event" /\ ret.val = Len(yielded) - 1
        /\ entries = 0 => yielded = <<>>

C4_Witness ==
    /\ bad = {} /\ entries >= 2
    /\ it.pc = "done" /\ yielded = AllEntries(entries)
    /\ held.kind = "event" /\ held.entry = 0 /\ held.moved

(* C5 as stated: getEvent(i) with i outside 0 .. entries-1 raises          *)
(* IndexError.                                                             *)
C5_OutOfRangeRaises ==
    (ret.op = "getEvent" /\ ~InRange(ret.arg)) => ret.status = "IndexError"

(* C5 amended: getEvent(i) with i outside 0 .. entries-1 raises nothing    *)
(* and returns None; it returns no Event and does not clamp the index.     *)
C5_OutOfRangeReturnsNone ==
    (ret.op = "getEvent" /\ ~InRange(ret.arg)) => ret.status = "None"

C5_Witness ==
    /\ entries > 0
    /\ ret.op = "getEvent" /\ ret.arg = entries /\ ret.status = "None"

(* C6: getEvent(i) of an entry in range whose read fails returns no Event  *)
(* bound to i.                                                             *)
C6_ShortReadReturnsNoEvent ==
    (ret.op = "getEvent" /\ InRange(ret.arg) /\ ret.arg \in bad)
        => ret.status # "Event"

(* C7 as stated: the size branch holds the element count itself and size() *)
(* returns that stored number.                                             *)
C7_SizeIsStoredCount ==
    (ret.op = "size" /\ ret.status = "ok")
        => ret.name \in ScalarBranches /\ ret.val = buffer.sc[ret.name]

(* C7 amended: size() is the number of elements of the vector held in the  *)
(* size branch (prefix_pt, prefix_Id for Tracksters) of the buffer, and    *)
(* collection[k] for 0 <= k < size() is an object of the same prefix with  *)
(* index() = k.                                                            *)
C7_SizeIsVectorLength ==
    /\ (ret.op = "size" /\ ret.status = "ok")
          => /\ ret.name \in VectorBranches
             /\ ret.val = Len(buffer.vec[ret.name])
             /\ \A j \in 0..(entries - 1) :
                   Loaded(j) => ret.val = Len(EntryData(j).vec[ret.name])
    /\ (ret.op = "size" /\ ret.name \in VectorBranches) => ret.status = "ok"
    /\ (/\ ret.op = "getitem"
        /\ ret.name \in VectorBranches
        /\ 0 <= ret.arg /\ ret.arg < Len(buffer.vec[ret.name]))
          => /\ ret.status = "ok"
             /\ held.kind = "obj" /\ held.index = ret.arg
             /\ \E a \in {"pt", "Id"} : Branch(held.prefix, a) = ret.name

C7_Witness ==
    /\ Loaded(1)
    /\ ret.op = "size" /\ ret.name = "rechit_pt"
    /\ ret.status = "ok" /\ ret.val = 2

OutOfBounds(r) ==
    /\ r.name \in VectorBranches
    /\ r.arg < 0 \/ r.arg >= Len(buffer.vec[r.name])

(* C8 as stated: collection[k] with k < 0 or k >= size() raises            *)
(* IndexError and makes no object.                                         *)
C8_GetitemChecksBounds ==
    (ret.op = "getitem" /\ OutOfBounds(ret)) => ret.status = "IndexError"

(* C8 amended: collection[k] checks nothing: for k < 0 and k >= size() too *)
(* it returns an object with index() = k.                                  *)
C8_GetitemChecksNothing ==
    (ret.op = "getitem" /\ OutOfBounds(ret))
        => /\ ret.status = "ok"
           /\ held.kind = "obj" /\ held.index = ret.arg

C8_Witness ==
    /\ Loaded(1)
    /\ ret.op = "getitem" /\ ret.name = "rechit_pt" /\ ret.arg = 2
    /\ held.kind = "obj" /\ held.index = 2

(* C9: isValid() is true exactly when the index is not -1, and an          *)
(* attribute read of an object of index -1 raises the "is not valid"       *)
(* exception whatever the attribute, a branch that does not exist          *)
(* included.                                                               *)
C9_InvalidObject ==
    /\ ret.op = "isValid"
          => /\ ret.status = "ok"
             /\ ret.val \in {0, 1}
             /\ ret.val = 1 <=> held.index # -1
    /\ (ret.op = "getattr" /\ held.index = -1) => ret.status = "Exception"

C9_Witness ==
    /\ held.kind = "obj" /\ held.index = -1 /\ held.prefix = "rechit"
    /\ ret.op = "getattr" /\ ret.name = "Id" /\ ret.status = "Exception"

C11_RepeatedReadIsStable == again # "differ"

C11_Witness ==
    /\ again = "same"
    /\ held.kind = "obj" /\ held.index = 1
    /\ ret.op = "getattr" /\ ret.name = "energy"
    /\ ret.status = "ok" /\ ret.val = 25

(* The value the buffer holds now for the branch and index f was read      *)
(* from, or -1 when it holds none.                                         *)
CurrentValue(f) ==
    LET r == VectorAt(buffer.vec[Branch(f.prefix, f.attr)], f.index)
    IN  IF r.status = "ok" THEN r.val ELSE -1

(* C12 as stated: no value is delivered from a cache: what the call of an  *)
(* accessor obtained from an object returns is what the buffer holds when  *)
(* it is called.                                                           *)
C12_NothingCached ==
    ret.op = "call" => ret.val = CurrentValue(held)

(* C12 amended: the views cache nothing, size() and an attribute lookup    *)
(* read the buffer at each call; but the lambda an attribute lookup        *)
(* returns holds the value read by the lookup, and its call returns that   *)
(* value whatever was loaded since.                                        *)
C12_LambdaKeepsLookupValue ==
    /\ (ret.op = "lookup" /\ ret.status = "ok")
          => /\ held.kind = "acc"
             /\ held.val = CurrentValue(held)
             /\ ret.val = held.val
    /\ ret.op = "call" => ret.status = "ok" /\ ret.val = held.val
    /\ (ret.op \in {"getattr", "size"} /\ ret.status = "ok")
          => \A j \in 0..(entries - 1) :
                Loaded(j) => ExpectedRead(EntryData(j), held, ret)

C12_Witness ==
    /\ held.kind = "acc" /\ held.entry = 1 /\ held.moved
    /\ held.prefix = "rechit" /\ held.attr = "energy" /\ held.index = 0
    /\ Loaded(0)
    /\ ret.op = "call" /\ ret.val = 15

(* C13 as stated: a view that a load has left behind stays stale: after    *)
(* entry i, then j # i, then i again have been loaded, a read through a    *)
(* view of the first load of i fails with StaleViewError.                  *)
C13_StaleStaysStale ==
    (held.moved /\ Loaded(held.entry) /\ ret.op \in ReadOps)
        => ret.status = "StaleViewError"

(* C13 amended: a load invalidates nothing, the views keep no trace of it. *)
(* After entry i, then j # i, then i again have been loaded, a read        *)
(* through a view of the first load of i is served from the buffer and     *)
(* gives the data of entry i again.                                        *)
C13_ReloadServesOldView ==
    (held.moved /\ Loaded(held.entry) /\ ret.op \in ReadOps)
        => /\ ret.status \in {"ok", "AttributeError", "IndexError", "Exception"}
           /\ ExpectedRead(EntryData(held.entry), held, ret)

C13_Witness ==
    /\ held.kind = "obj" /\ held.moved /\ held.entry = 1
    /\ held.prefix = "rechit" /\ held.index = 1
    /\ Loaded(1)
    /\ ret.op = "getattr" /\ ret.name = "energy"
    /\ ret.status = "ok" /\ ret.val = 25

(* C14: the generator of a collection, with no entry read since its first  *)
(* next(), yields the objects of index 0, 1, ..., size()-1 in this order   *)
(* and ends (at once when size() is 0); a new generator starts at 0 and    *)
(* reads size() again.                                                     *)
C14_CollectionIterYieldsAllInOrder ==
    held.kind = "gen" =>
        /\ held.pc = "start" => held.index = 0
        /\ (ret.op = "cnext" /\ ret.status = "Object")
              => /\ held.pc = "yielded"
                 /\ ret.val = held.index - 1
                 /\ ret.name = held.prefix
        /\ (/\ held.pc \in {"yielded", "done"}
            /\ held.sizeBranch \in VectorBranches
            /\ ~held.aged)
              => /\ held.val = Len(buffer.vec[held.sizeBranch])
                 /\ held.index <= held.val
                 /\ held.pc = "done" => held.index = held.val
        /\ (ret.op = "cnext" /\ ret.status = "StopIteration")
              => held.pc = "done" /\ held.index = held.val

C14_Witness ==
    /\ held.kind = "gen" /\ held.pc = "done" /\ ~held.aged
    /\ held.sizeBranch = "rechit_pt" /\ held.index = 2
    /\ Loaded(1)
    /\ ret.op = "cnext" /\ ret.status = "StopIteration"

(* C15: recHits(prefix), tracksters(prefix), ... validate nothing: they    *)
(* return a collection for any prefix, one with no branch in the tree      *)
(* included; that the size branch is missing shows only when size() or an  *)
(* attribute is read, as AttributeError.                                   *)
C15_CollectionIsLazy ==
    /\ ret.op = "collection"
          => /\ ret.status = "ok"
             /\ held.kind = "coll" /\ held.prefix = ret.name
             /\ \E a \in {"pt", "Id"} : held.sizeBranch = Branch(ret.name, a)
    /\ (ret.op = "size" /\ ret.name \notin VectorBranches)
          => ret.status = "AttributeError"
    /\ (/\ ret.op = "cnext" /\ held.kind = "gen"
        /\ held.sizeBranch \notin VectorBranches)
          => ret.status = "AttributeError"
    /\ (/\ ret.op = "getattr" /\ held.index # -1
        /\ Branch(held.prefix, ret.name) \notin VectorBranches)
          => ret.status = "AttributeError"

C15_Witness ==
    /\ held.kind = "coll" /\ held.prefix = "simcluster"
    /\ ret.op = "size" /\ ret.name = "simcluster_pt"
    /\ ret.status = "AttributeError"

(* C16: the number of entries is fixed when the tree is opened: no call,   *)
(* failed ones included, changes it, and nevents() returns it.             *)
C16_EntryCountIsFixed ==
    [][/\ entries' = entries
       /\ ret'.op = "nevents" => ret'.val = entries]_vars

C16_Witness ==
    /\ entries = 2 /\ bad # {}
    /\ it.pc = "done" /\ held.kind = "obj" /\ held.moved
    /\ ret.op = "nevents" /\ ret.val = 2

(* The calls that read through a view or the ntuple, and those that make   *)
(* a view or a generator.                                                  *)
PureReadOps ==
    {"entry", "run", "lumi", "event", "eventIdStr", "size", "getattr",
     "isValid", "index", "call", "nevents", "hasRawRecHits"}

MakeOps == {"collection", "getitem", "lookup", "citer", "cnext", "iter"}

(* C17: only getEvent and the steps of the iteration over the ntuple       *)
(* change the buffer.  A read leaves the buffer and the view it reads      *)
(* through as they are; making a collection, an object, a lambda or a      *)
(* generator leaves the buffer as it is, and what is made keeps the entry  *)
(* of the view it is made from (and its prefix, for an object or lambda).  *)
C17_ReadsChangeNothing ==
    [][/\ ret'.op \notin {"getEvent", "next"} => buffer' = buffer
       /\ ret'.op \in PureReadOps => held' = held
       /\ ret'.op \in MakeOps
             => /\ held'.entry = held.entry /\ held'.moved = held.moved
                /\ ret'.op \in {"getitem", "lookup", "citer", "cnext"}
                      => held'.prefix = held.prefix
                /\ ret'.op \in {"lookup", "iter"} => held'.index = held.index
                /\ ret'.op = "iter" => held' = held]_vars

C17_Witness ==
    /\ held.kind = "event" /\ held.entry = 0 /\ held.moved
    /\ Loaded(1)
    /\ ret.op = "eventIdStr" /\ ret.name = "1:1:2"

(* C18: a getEvent(i) that returns None for an index outside the tree      *)
(* leaves the buffer, the generator and the caller's view as they were, so *)
(* reads through the view give what they gave before.                      *)
C18_RejectedLoadChangesNothing ==
    [][(ret'.op = "getEvent" /\ ret'.status = "None")
          => /\ buffer' = buffer
             /\ held' = held
             /\ it' = it /\ yielded' = yielded]_vars

C18_Witness ==
    /\ Loaded(1)
    /\ held.kind = "obj" /\ held.entry = 1 /\ ~held.moved
    /\ ret.op = "getEvent" /\ ret.arg = entries /\ ret.status = "None"

====
